---- MODULE Spec2Model ----
(***************************************************************************)
(* Train platform crawler: the resilient Rail Data API client              *)
(* (clients/rail_data_client.py), the error taxonomy (core/exceptions.py), *)
(* the response normalizer and the train data service                      *)
(* (services/train_service.py) and the route layer (main.py).              *)
(*                                                                         *)
(* Three specifications share the module:                                  *)
(*   Spec        one request at a time through route -> service -> client  *)
(*   SpecParse   _parse_service_data applied to one raw upstream record    *)
(*   SpecDelays  check_service_delays applied to one list of services      *)
(***************************************************************************)
EXTENDS Integers, Sequences, FiniteSets, TLC

VARIABLES
    \* ---- route layer / train data service (one request in flight)
    route,          \* "idle" | "arrivals" | "departures" | "status"
    spc,            \* "idle" | "fetching" | "done"
    crs,            \* the crs_code of the request
    phase,          \* which board the client is fetching: "none" | "arr" | "dep"
    arrivalsRes,    \* outcome of get_arrivals
    departuresRes,  \* outcome of get_departures
    statusRes,      \* outcome of get_station_status
    httpStatus,     \* status code the route layer answers with (0: none yet)
    \* ---- RailDataClient._make_request (one call, retry by recursion)
    cpc,            \* "idle" | "calling" | "returned" | "raised"
    retries,        \* the retries argument of the current invocation
    outcomes,       \* upstream outcomes of the attempts of this call
    apiLog,         \* status codes passed to log_api_request in this call
    slept,          \* durations passed to time.sleep in this call
    clientRes,      \* what the call returned or raised
    call,           \* method, endpoint, params of the current invocation
    sent,           \* the requests given to session.request in this call
    \* ---- _parse_service_data on one record (SpecParse)
    ppc,            \* "input" | "done"
    raw, is_arrival, parsed,
    \* ---- check_service_delays on one list (SpecDelays)
    dpc,            \* "input" | "done"
    services, threshold_minutes, delayed,
    \* ---- RailDataClient.__init__ (SpecConstruct)
    kpc,            \* "start" | "validated" | "session" | "done" | "raised"
    settingsArg,    \* the settings argument (NoSettings: not given)
    envSettings,    \* what get_settings() returns
    selfSettings,   \* self.settings (NoSettings: not yet assigned)
    session,        \* self.session (NoSession: attribute not yet assigned)
    constructed,    \* whether RailDataClient(...) has yielded an instance
    \* ---- module-level singletons, one position per thread (SpecSingleton)
    configOk,       \* whether the environment's settings pass validation
    client_instance,\* rail_data_client._client_instance
    train_service,  \* train_service._train_service
    tpc,            \* thread -> position
    top,            \* thread -> the function it called: "none" | "client" | "service"
    tmp,            \* thread -> the instance under construction, until stored
    result,         \* thread -> how its last call ended: "none" | "return" | "raise"
    clientsBuilt,   \* RailDataClient instances constructed by the getter
    servicesBuilt,  \* TrainDataService instances constructed by the getter
    returnedClients,   \* values get_rail_data_client has returned
    returnedServices,  \* values get_train_service has returned
    setCalls,       \* set_rail_data_client / set_train_service calls so far
    \* ---- the singleton functions called one after the other (SpecSequential)
    calls,          \* the calls made so far, with what each returned or raised
    \* ---- core.config.get_settings and its lru_cache (SpecSettings)
    environ,        \* the value the environment gives APP_NAME
    cache,          \* the Settings instance lru_cache holds (NoCached: none)
    settingsBuilt,  \* Settings() instances constructed so far
    settingsLog,    \* get_settings / cache_clear / environment changes so far
    \* ---- one notifier slot of NotificationService (SpecNotify)
    notifier,       \* the notifier registered for the type, with its enabled flag
    notifyLog       \* the calls made so far, with what each did and returned

svcVars    == <<route, spc, crs, phase, arrivalsRes, departuresRes, statusRes, httpStatus>>
clientVars == <<cpc, retries, outcomes, apiLog, slept, clientRes, call, sent>>
parseVars  == <<ppc, raw, is_arrival, parsed>>
delayVars  == <<dpc, services, threshold_minutes, delayed>>
constructVars == <<kpc, settingsArg, envSettings, selfSettings, session, constructed>>
singletonVars == <<configOk, client_instance, train_service, tpc, top, tmp, result,
                   clientsBuilt, servicesBuilt, returnedClients, returnedServices, setCalls>>
seqVars    == <<calls>>
cacheVars  == <<environ, cache, settingsBuilt, settingsLog>>
notifyVars == <<notifier, notifyLog>>
extVars    == <<seqVars, cacheVars, notifyVars>>
vars       == <<svcVars, clientVars, parseVars, delayVars, constructVars, singletonVars, extVars>>

\* ------------------------------------------------------------------ bounds
MaxBatch    == 2    \* raw records in one upstream trainServices list
MaxLocs     == 2    \* entries of a destination / origin list
MaxSets     == 1    \* set_rail_data_client / set_train_service calls in a run
MaxCalls    == 4    \* calls of the singleton functions in a sequential run
MaxOps      == 4    \* get_settings / cache_clear / environment changes in a run
MaxNotify   == 3    \* calls on the notifier and the notification service in a run
MaxServices == 2    \* services handed to check_service_delays

\* ----------------------------------------------------------- Python values
\* Python's None (also what dict.get returns for a missing key).
NONE == "<None>"

\* Truthiness of an Optional[str]: None and "" are falsy.
Truthy(v) == v # NONE /\ v # ""

\* Mutant: the `or ""` default is missing.
OrEmpty_Identity(v) == v

\* `x or ""`
OrEmpty(v) == IF Truthy(v) THEN v ELSE ""

\* ------------------------------------------------ raw upstream records
\* A destination / origin value of a raw record: the key may be missing
\* (present = FALSE) or hold a list of location mappings; an entry is the
\* entry's locationName, NONE when the entry has no such key.
LocEntries == {"Reading", NONE}

LocLists == UNION {[1..n -> LocEntries] : n \in 0..MaxLocs}

AbsentList == [present |-> FALSE, list |-> <<>>]

RawLists == {AbsentList} \cup {[present |-> TRUE, list |-> l] : l \in LocLists}

\* The raw record None (a null entry of trainServices).
NullRecord ==
    [isNull |-> TRUE, sta |-> NONE, eta |-> NONE, std |-> NONE, etd |-> NONE,
     platform |-> NONE, operator |-> NONE, destination |-> AbsentList,
     origin |-> AbsentList, serviceID |-> NONE]

\* Raw REST-shaped records; a field that is NONE is missing (or JSON null).
RawRecords ==
    {NullRecord} \cup
    [isNull : {FALSE},
     sta : {NONE, "", "10:30"}, eta : {NONE, "", "On time"},
     std : {NONE, "", "09:15"}, etd : {NONE, "", "09:20"},
     platform : {NONE, "1"}, operator : {NONE, "GWR"},
     destination : RawLists, origin : RawLists,
     serviceID : {NONE, "ABC123"}]

\* ------------------------------------------------------- ServiceRecord
NoService ==
    [scheduled_time |-> "", expected_time |-> "", platform |-> NONE,
     operator |-> NONE, destination |-> NONE, origin |-> NONE,
     service_id |-> NONE, status |-> NONE]

\* Outcome of one normalization: a TrainService, or DataParsingError raised.
ParseFailure == [ok |-> FALSE, service |-> NoService]

\* Mutant: the last entry of the list is taken instead of the first.
FirstLocation_Last(field) ==
    IF field.present /\ Len(field.list) > 0
    THEN field.list[Len(field.list)]
    ELSE NONE

\* destination / origin extraction of _parse_service_data.
FirstLocation(field) ==
    IF field.present /\ Len(field.list) > 0
    THEN field.list[1]
    ELSE NONE

\* Mutant: the departure fields are read whatever is_arrival says.
ParseServiceData_DepartureFields(service_data, arrival) ==
    IF service_data.isNull
    THEN ParseFailure
    ELSE [ok |-> TRUE,
          service |->
            [scheduled_time |-> OrEmpty(service_data.std),
             expected_time  |-> OrEmpty(service_data.etd),
             platform       |-> service_data.platform,
             operator       |-> service_data.operator,
             destination    |-> FirstLocation(service_data.destination),
             origin         |-> FirstLocation(service_data.origin),
             service_id     |-> service_data.serviceID,
             status         |-> service_data.etd]]

ParseServiceData(service_data, arrival) ==
    IF service_data.isNull
    THEN ParseFailure    \* None.get -> AttributeError -> DataParsingError
    ELSE LET scheduled_time == IF arrival THEN service_data.sta ELSE service_data.std
             expected_time  == IF arrival THEN service_data.eta ELSE service_data.etd
             status         == expected_time
         IN  [ok |-> TRUE,
              service |->
                [scheduled_time |-> OrEmpty(scheduled_time),
                 expected_time  |-> OrEmpty(expected_time),
                 platform       |-> service_data.platform,
                 operator       |-> service_data.operator,
                 destination    |-> FirstLocation(service_data.destination),
                 origin         |-> FirstLocation(service_data.origin),
                 service_id     |-> service_data.serviceID,
                 status         |-> status]]

\* Mutant: the first DataParsingError aborts the rest of the batch.
RECURSIVE ParseBatch_AbortOnFailure(_, _)
ParseBatch_AbortOnFailure(train_services, arrival) ==
    IF train_services = <<>>
    THEN <<>>
    ELSE LET r == ParseServiceData(Head(train_services), arrival)
         IN  IF r.ok
             THEN <<r.service>> \o ParseBatch_AbortOnFailure(Tail(train_services), arrival)
             ELSE <<>>

\* The per-record loop of get_arrivals / get_departures: a record whose
\* normalization raises DataParsingError is skipped, the others are appended.
RECURSIVE ParseBatch(_, _)
ParseBatch(train_services, arrival) ==
    IF train_services = <<>>
    THEN <<>>
    ELSE LET r == ParseServiceData(Head(train_services), arrival)
             rest == ParseBatch(Tail(train_services), arrival)
         IN  IF r.ok THEN <<r.service>> \o rest ELSE rest

\* ------------------------------------------------ check_service_delays
\* Mutant: "Cancelled" is missing from the excluded literals.
FlagsDelayed_NoCancelled(service) ==
    IF Truthy(service.scheduled_time) /\ Truthy(service.expected_time)
    THEN IF service.expected_time # service.scheduled_time
         THEN IF service.expected_time \notin {"On time", "Delayed"}
              THEN TRUE
              ELSE IF service.expected_time = "Delayed" THEN TRUE ELSE FALSE
         ELSE FALSE
    ELSE FALSE

\* The nested conditions of the loop body, for one service.
FlagsDelayed(service) ==
    IF Truthy(service.scheduled_time) /\ Truthy(service.expected_time)
    THEN IF service.expected_time # service.scheduled_time
         THEN IF service.expected_time \notin {"On time", "Cancelled", "Delayed"}
              THEN TRUE
              ELSE IF service.expected_time = "Delayed" THEN TRUE ELSE FALSE
         ELSE FALSE
    ELSE FALSE

\* Mutant: a threshold above the default suppresses every flag.
RECURSIVE CheckServiceDelays_UsesThreshold(_, _)
CheckServiceDelays_UsesThreshold(svcs, threshold) ==
    IF svcs = <<>>
    THEN <<>>
    ELSE IF FlagsDelayed(Head(svcs)) /\ threshold <= 5
         THEN <<Head(svcs)>> \o CheckServiceDelays_UsesThreshold(Tail(svcs), threshold)
         ELSE CheckServiceDelays_UsesThreshold(Tail(svcs), threshold)

RECURSIVE CheckServiceDelays(_, _)
CheckServiceDelays(svcs, threshold) ==
    IF svcs = <<>>
    THEN <<>>
    ELSE IF FlagsDelayed(Head(svcs))
         THEN <<Head(svcs)>> \o CheckServiceDelays(Tail(svcs), threshold)
         ELSE CheckServiceDelays(Tail(svcs), threshold)

\* ------------------------------------------------------ error taxonomy
\* ExternalAPIError.status_code when the constructor is given none.
NoStatus == -1

\* An exception object: its class, the status_code / response_body it
\* carries (ExternalAPIError only) and the layer that constructed it.
NoError ==
    [kind |-> "none", status_code |-> NoStatus, response_body |-> NONE,
     origin |-> "none"]

Error(kind, status_code, response_body, origin) ==
    [kind |-> kind, status_code |-> status_code,
     response_body |-> response_body, origin |-> origin]

\* Mutant: the 4xx / 5xx ranges are tested before 429 and 504.
HandleApiError_RangesFirst(response_status, response_text) ==
    IF 400 <= response_status /\ response_status < 500
    THEN Error("ExternalAPIError", response_status, response_text, "client")
    ELSE IF 500 <= response_status /\ response_status < 600
    THEN Error("ExternalAPIError", response_status, response_text, "client")
    ELSE IF response_status = 429
    THEN Error("APIRateLimitError", NoStatus, NONE, "client")
    ELSE IF response_status = 504
    THEN Error("APITimeoutError", NoStatus, NONE, "client")
    ELSE Error("ExternalAPIError", response_status, response_text, "client")

\* handle_api_error: the exception raised for a non-200 response.
HandleApiError(response_status, response_text) ==
    IF response_status = 429
    THEN Error("APIRateLimitError", NoStatus, NONE, "client")
    ELSE IF response_status = 504
    THEN Error("APITimeoutError", NoStatus, NONE, "client")
    ELSE IF 400 <= response_status /\ response_status < 500
    THEN Error("ExternalAPIError", response_status, response_text, "client")
    ELSE IF 500 <= response_status /\ response_status < 600
    THEN Error("ExternalAPIError", response_status, response_text, "client")
    ELSE Error("ExternalAPIError", response_status, response_text, "client")

\* EXCEPTION_STATUS_CODES.get(type(exc), 500) of create_http_exception.
CreateHttpException(exc) ==
    IF exc.kind = "ExternalAPIError" THEN 502
    ELSE IF exc.kind = "APITimeoutError" THEN 504
    ELSE IF exc.kind = "APIRateLimitError" THEN 429
    ELSE 500

\* ---------------------------------------------------- upstream outcomes
\* Raw records the upstream board lists are drawn from.
Board(scheduled, expected) ==
    [isNull |-> FALSE, sta |-> scheduled, eta |-> expected,
     std |-> scheduled, etd |-> expected, platform |-> "1",
     operator |-> "GWR", destination |-> [present |-> TRUE, list |-> <<"Reading">>],
     origin |-> AbsentList, serviceID |-> "ABC123"]

BoardRecords ==
    {NullRecord, Board("09:15", "On time"), Board("09:15", "09:20"),
     Board(NONE, "Delayed")}

\* The JSON body of a 200 response: trainServices is a list, the key is
\* missing, or its value is null.
NoPayload == [ts |-> "absent", list |-> <<>>]

Payloads ==
    {NoPayload, [ts |-> "null", list |-> <<>>]} \cup
    {[ts |-> "list", list |-> l] :
        l \in UNION {[1..n -> BoardRecords] : n \in 0..MaxBatch}}

Statuses == {204, 404, 429, 500, 504}

Bodies == {"", "upstream error"}

\* What session.request (and response.json) does on one attempt.
Outcome(kind, status, body, decodable, payload) ==
    [kind |-> kind, status |-> status, body |-> body,
     decodable |-> decodable, payload |-> payload]

Http200      == {Outcome("http", 200, "", TRUE, p) : p \in Payloads}
Http200Bad   == {Outcome("http", 200, "<html>", FALSE, NoPayload)}
HttpErrors   == {Outcome("http", s, b, FALSE, NoPayload) : s \in Statuses, b \in Bodies}
TimeoutOut   == Outcome("timeout", 0, "", FALSE, NoPayload)
ConnErrOut   == Outcome("connerr", 0, "", FALSE, NoPayload)
ReqExcOut    == Outcome("reqexc", 0, "", FALSE, NoPayload)

\* ------------------------------------------------------ call results
\* What a call returned or raised.
NoResult == [kind |-> "none", payload |-> NoPayload, services |-> <<>>, error |-> NoError]

Returned(payload) ==
    [kind |-> "return", payload |-> payload, services |-> <<>>, error |-> NoError]

ReturnedServices(svcs) ==
    [kind |-> "return", payload |-> NoPayload, services |-> svcs, error |-> NoError]

Raised(error) ==
    [kind |-> "raise", payload |-> NoPayload, services |-> <<>>, error |-> error]

\* get_arrivals / get_departures once the client call has returned or
\* raised: parse the batch, re-raise ExternalAPIError, wrap anything else.
FetchResult(res, arrival) ==
    IF res.kind = "return"
    THEN IF res.payload.ts = "null"
         THEN \* iterating None: TypeError -> except Exception
              Raised(Error("ExternalAPIError", NoStatus, NONE, "service"))
         ELSE ReturnedServices(ParseBatch(res.payload.list, arrival))
    ELSE IF res.error.kind = "ExternalAPIError"
         THEN Raised(res.error)
         ELSE Raised(Error("ExternalAPIError", NoStatus, NONE, "service"))

\* The route handlers arrivals / departures of main.py.
RouteStatus(res) ==
    IF res.kind = "return" THEN 200 ELSE CreateHttpException(res.error)

\* Mutant: the overall status looks at the arrivals only.
StatusSummary_ArrivalsOnly(crs_code, arrivals, departures) ==
    LET delayed_arrivals   == CheckServiceDelays(arrivals, 5)
        delayed_departures == CheckServiceDelays(departures, 5)
    IN  [crs_code |-> crs_code,
         total_arrivals |-> Len(arrivals),
         total_departures |-> Len(departures),
         delayed_arrivals |-> Len(delayed_arrivals),
         delayed_departures |-> Len(delayed_departures),
         status |-> IF Len(delayed_arrivals) = 0
                    THEN "operational" ELSE "delays"]

\* The dict get_station_status returns when both fetches succeeded.
StatusSummary(crs_code, arrivals, departures) ==
    LET delayed_arrivals   == CheckServiceDelays(arrivals, 5)
        delayed_departures == CheckServiceDelays(departures, 5)
    IN  [crs_code |-> crs_code,
         total_arrivals |-> Len(arrivals),
         total_departures |-> Len(departures),
         delayed_arrivals |-> Len(delayed_arrivals),
         delayed_departures |-> Len(delayed_departures),
         status |-> IF Len(delayed_arrivals) + Len(delayed_departures) = 0
                    THEN "operational" ELSE "delays"]

\* Mutant: the except clause re-raises instead of returning a dict.
StatusError_Reraise(crs_code, exc) ==
    [status |-> "raised", error |-> exc.kind]

\* The dict get_station_status returns from its except clause.
StatusError(crs_code, exc) ==
    [crs_code |-> crs_code, status |-> "error", error |-> exc.kind]

NoStatusRes == [status |-> "none"]

\* ------------------------------------------------------- program constants
\* self.max_retries and self.retry_delay set by RailDataClient.__init__.
MaxRetries == 3
RetryDelay == 1

CrsCodes == {"PAD", "RDG"}

\* ---------------------------------------------------------- initial states
\* ------------------------------------------------------ upstream requests
\* Query parameter and URL values are written as the text that goes on the
\* wire; None is NONE.
NoCall == [method |-> NONE, endpoint |-> <<>>, params |-> <<>>]

\* num_rows: the default of get_arrivals / get_departures, which the routes
\* use, and the value get_station_status passes.
DefaultNumRows == "5"
StatusNumRows  == "10"

\* get_arrival_board_with_details: the arguments it gives _make_request.
ArrivalBoardRequest(crs_code, num_rows) ==
    [method   |-> "GET",
     endpoint |-> <<"GetArrBoardWithDetails", crs_code>>,
     params   |-> [numRows |-> num_rows, filterCrs |-> NONE, filterType |-> "to",
                   timeOffset |-> "0", timeWindow |-> "120"]]

\* get_departure_board_with_details: the arguments it gives _make_request.
DepartureBoardRequest(crs_code, num_rows) ==
    [method   |-> "GET",
     endpoint |-> <<"GetDepBoardWithDetails", crs_code>>,
     params   |-> [numRows |-> num_rows]]

\* url = f"{ldbws_base_url}/{endpoint}"
Url(endpoint) == <<"ldbws_base_url">> \o endpoint

\* `if params: params = {k: v for k, v in params.items() if v is not None}`
StripNone(params) ==
    IF DOMAIN params = {}
    THEN params
    ELSE [k \in {j \in DOMAIN params : params[j] # NONE} |-> params[k]]

\* What one invocation of _make_request gives session.request.
Send(c) == [method |-> c.method, url |-> Url(c.endpoint), params |-> StripNone(c.params)]

\* Mutant: the retry passes no query parameters on.
Recurse_DropsParams(c) == [c EXCEPT !.params = <<>>]

\* The arguments of the recursive invocation: method, endpoint and the
\* local params, which by then holds the stripped dict.
Recurse(c) == [c EXCEPT !.params = StripNone(@)]

ClientIdle ==
    /\ cpc = "idle"
    /\ retries = 0
    /\ outcomes = <<>>
    /\ apiLog = <<>>
    /\ slept = <<>>
    /\ clientRes = NoResult
    /\ call = NoCall
    /\ sent = <<>>

ServiceIdle ==
    /\ route = "idle"
    /\ spc = "idle"
    /\ crs = "PAD"
    /\ phase = "none"
    /\ arrivalsRes = NoResult
    /\ departuresRes = NoResult
    /\ statusRes = NoStatusRes
    /\ httpStatus = 0

ParseIdle ==
    /\ ppc = "input"
    /\ raw = NullRecord
    /\ is_arrival = FALSE
    /\ parsed = ParseFailure

DelaysIdle ==
    /\ dpc = "input"
    /\ services = <<>>
    /\ threshold_minutes = 5
    /\ delayed = <<>>

\* ------------------------------------------------------ client settings
\* The three fields of Settings that RailDataClient.__init__ reads.
SettingsSet ==
    [consumer_key    : {"", "key"},
     consumer_secret : {NONE, "", "secret"},
     ldbws_base_url  : {"", "https://api"}]

DefaultSettings ==
    [consumer_key |-> "key", consumer_secret |-> NONE, ldbws_base_url |-> "https://api"]

\* Stands for None where a Settings object is expected.
NoSettings ==
    [consumer_key |-> NONE, consumer_secret |-> NONE, ldbws_base_url |-> NONE]

NoSession == [auth |-> NONE, headers |-> {}]

\* `settings or get_settings()`: a Settings object is truthy.
ResolveSettings(settings, env) == IF settings = NoSettings THEN env ELSE settings

\* Mutant: only the credential is checked.
ValidConfiguration_KeyOnly(st) == Truthy(st.consumer_key)

\* _validate_configuration raises unless both fields are truthy.
ValidConfiguration(st) == Truthy(st.consumer_key) /\ Truthy(st.ldbws_base_url)

\* requests.Session() followed by _setup_authentication.
SetupAuthentication(st) ==
    IF Truthy(st.consumer_secret)
    THEN [auth |-> <<st.consumer_key, st.consumer_secret>>, headers |-> {}]
    ELSE [auth |-> NONE, headers |-> {"x-apikey", "User-Agent", "Accept"}]

ConstructIdle ==
    /\ kpc = "start"
    /\ settingsArg = NoSettings
    /\ envSettings = DefaultSettings
    /\ selfSettings = NoSettings
    /\ session = NoSession
    /\ constructed = FALSE

\* ------------------------------------------------------ singletons
Threads == {"t1", "t2"}

\* None, and the instances: <<"client", id>> and <<"service", id, rail_client>>;
\* id 0 is an instance built by the caller of a set_ function.
NoInstance == <<>>
ClientInstance(id) == <<"client", id>>
ServiceInstance(id, rail_client) == <<"service", id, rail_client>>
InjectedClient  == ClientInstance(0)
InjectedService == ServiceInstance(0, InjectedClient)
SingletonIdle ==
    /\ configOk = TRUE
    /\ client_instance = NoInstance
    /\ train_service = NoInstance
    /\ tpc = [t \in Threads |-> "idle"]
    /\ top = [t \in Threads |-> "none"]
    /\ tmp = [t \in Threads |-> NoInstance]
    /\ result = [t \in Threads |-> "none"]
    /\ clientsBuilt = 0
    /\ servicesBuilt = 0
    /\ returnedClients = {}
    /\ returnedServices = {}
    /\ setCalls = 0

SeqIdle == calls = <<>>

\* ------------------------------------------------------ settings cache
EnvValues == {"Cached App", "New App"}

\* A Settings instance: its identity and the app_name it read.
SettingsInstance(id, app_name) == [id |-> id, app_name |-> app_name]

\* Stands for "no instance" where a Settings instance is expected.
NoCached == SettingsInstance(0, NONE)

CacheIdle ==
    /\ environ = "Cached App"
    /\ cache = NoCached
    /\ settingsBuilt = 0
    /\ settingsLog = <<>>

\* ------------------------------------------------------ notifications
\* What self.notifiers holds for one notification type: nothing, a provider
\* notifier (EmailNotifier, SMSNotifier, PushNotifier) or a MockNotifier;
\* configured tells whether the provider settings were present when it was
\* constructed.
Notifier(kind, configured, enabled) ==
    [kind |-> kind, configured |-> configured, enabled |-> enabled]

NoNotifier == Notifier("absent", FALSE, FALSE)

\* BaseNotifier.__init__ sets enabled; _validate_configuration of a
\* provider notifier calls disable() when a setting is missing.
NewNotifier(kind, configured) == Notifier(kind, configured, configured)

Notifiers ==
    {NoNotifier, NewNotifier("provider", TRUE), NewNotifier("provider", FALSE),
     NewNotifier("mock", TRUE)}

\* message.recipient: well formed, malformed, or not a string at all.
Recipients == {"valid", "invalid", "none"}

\* What the provider does when send reaches it.
Providers == {"ok", "raises"}

\* validate_recipient: the provider notifiers reject a non-string, the
\* MockNotifier calls recipient.strip() and raises on it.
ValidateRecipient(n, recipient) ==
    IF recipient = "valid" THEN "true"
    ELSE IF recipient = "invalid" THEN "false"
    ELSE IF n.kind = "mock" THEN "raise" ELSE "false"

\* A NotificationResult, or the exception that left the call.
NotificationResult(success, error) == [kind |-> "result", success |-> success, error |-> error]
Propagated(error) == [kind |-> "raise", success |-> FALSE, error |-> error]
NoResultYet == [kind |-> "none", success |-> FALSE, error |-> NONE]

\* send: the provider's answer, or the notification error it raises.
SendOutcome(provider) ==
    IF provider = "ok"
    THEN NotificationResult(TRUE, NONE)
    ELSE Propagated("provider error")

\* Whether send_if_enabled reaches self.send.
InvokesSend(n, recipient) == n.enabled /\ ValidateRecipient(n, recipient) = "true"

\* Mutant: the enabled flag is not consulted.
SendIfEnabledResult_IgnoresFlag(n, recipient, provider) ==
    IF ValidateRecipient(n, recipient) = "raise"
    THEN Propagated("AttributeError")
    ELSE IF ValidateRecipient(n, recipient) = "false"
         THEN NotificationResult(FALSE, "Invalid recipient")
         ELSE IF SendOutcome(provider).kind = "raise"
              THEN NotificationResult(FALSE, SendOutcome(provider).error)
              ELSE SendOutcome(provider)

\* BaseNotifier.send_if_enabled
SendIfEnabledResult(n, recipient, provider) ==
    IF ~n.enabled
    THEN NotificationResult(FALSE, "Notifier is disabled")
    ELSE IF ValidateRecipient(n, recipient) = "raise"
         THEN Propagated("AttributeError")
         ELSE IF ValidateRecipient(n, recipient) = "false"
              THEN NotificationResult(FALSE, "Invalid recipient")
              ELSE IF SendOutcome(provider).kind = "raise"
                   THEN NotificationResult(FALSE, SendOutcome(provider).error)
                   ELSE SendOutcome(provider)

\* Mutant: an exception of send_if_enabled leaves send_notification.
SendNotificationResult_NoExcept(n, recipient, provider) ==
    IF n.kind = "absent"
    THEN NotificationResult(FALSE, "No notifier available")
    ELSE SendIfEnabledResult(n, recipient, provider)

\* NotificationService.send_notification
SendNotificationResult(n, recipient, provider) ==
    IF n.kind = "absent"
    THEN NotificationResult(FALSE, "No notifier available")
    ELSE IF SendIfEnabledResult(n, recipient, provider).kind = "raise"
         THEN NotificationResult(FALSE, "Error sending notification")
         ELSE SendIfEnabledResult(n, recipient, provider)

\* One entry of notifyLog.
NotifyCall(op, n, recipient, provider, invoked, res) ==
    [op |-> op, enabled |-> n.enabled, recipient |-> recipient, provider |-> provider,
     sent |-> invoked, result |-> res]

NotifyIdle ==
    /\ notifier = NoNotifier
    /\ notifyLog = <<>>

ExtIdle == SeqIdle /\ CacheIdle /\ NotifyIdle

Init == ServiceIdle /\ ClientIdle /\ ParseIdle /\ DelaysIdle /\ ConstructIdle /\ SingletonIdle /\ ExtIdle

\* ------------------------------------------------------------ the client
\* Mutant: off by one, a further retry after max_retries retries.
RetryTimeout_OffByOne(r) == r <= MaxRetries

\* `if retries < self.max_retries` of the Timeout handler.
RetryTimeout(r) == r < MaxRetries

\* Mutant: connection failures have a retry budget of their own.
RetryConnectionError_OwnCounter(r) ==
    Cardinality({i \in 1..Len(outcomes) : outcomes[i].kind = "connerr"}) < MaxRetries

\* Mutant: a connection failure is never retried.
RetryConnectionError_Never(r) == FALSE

\* `if retries < self.max_retries` of the ConnectionError handler.
RetryConnectionError(r) == r < MaxRetries

\* Mutant: the retry counter lives on the client and is not reset per call.
StartClientCall_KeepsRetries(request) ==
    /\ cpc' = "calling"
    /\ retries' = retries
    /\ outcomes' = <<>>
    /\ apiLog' = <<>>
    /\ slept' = <<>>
    /\ clientRes' = NoResult
    /\ call' = request
    /\ sent' = <<>>

\* A board method of the client calls _make_request(..., retries = 0).
StartClientCall(request) ==
    /\ cpc' = "calling"
    /\ retries' = 0
    /\ outcomes' = <<>>
    /\ apiLog' = <<>>
    /\ slept' = <<>>
    /\ clientRes' = NoResult
    /\ call' = request
    /\ sent' = <<>>

\* One invocation of _make_request whose session.request answers 200.
RequestOk(o) ==
    /\ spc = "fetching" /\ cpc = "calling"
    /\ sent' = Append(sent, Send(call))
    /\ o \in Http200
    /\ outcomes' = Append(outcomes, o)
    /\ apiLog' = Append(apiLog, 200)
    /\ cpc' = "returned"
    /\ clientRes' = Returned(o.payload)
    /\ UNCHANGED <<retries, slept, call>>
    /\ UNCHANGED <<svcVars, parseVars, delayVars, constructVars, singletonVars, extVars>>

\* ... answers 200 with a body response.json() cannot decode: the
\* JSONDecodeError is a RequestException, handled by the last except clause.
RequestUndecodable(o) ==
    /\ spc = "fetching" /\ cpc = "calling"
    /\ sent' = Append(sent, Send(call))
    /\ o \in Http200Bad
    /\ outcomes' = Append(outcomes, o)
    /\ apiLog' = apiLog \o <<200, 0>>
    /\ cpc' = "raised"
    /\ clientRes' = Raised(Error("ExternalAPIError", NoStatus, NONE, "client"))
    /\ UNCHANGED <<retries, slept, call>>
    /\ UNCHANGED <<svcVars, parseVars, delayVars, constructVars, singletonVars, extVars>>

\* Mutant: a 5xx response is retried like a network failure.
RequestHttpError_RetryServerError(o) ==
    /\ spc = "fetching" /\ cpc = "calling"
    /\ sent' = Append(sent, Send(call))
    /\ o \in HttpErrors
    /\ outcomes' = Append(outcomes, o)
    /\ apiLog' = Append(apiLog, o.status)
    /\ IF o.status >= 500 /\ retries < MaxRetries
       THEN /\ slept' = Append(slept, RetryDelay * (retries + 1))
            /\ retries' = retries + 1
            /\ call' = Recurse(call)
            /\ UNCHANGED <<cpc, clientRes>>
       ELSE /\ cpc' = "raised"
            /\ clientRes' = Raised(HandleApiError(o.status, o.body))
            /\ UNCHANGED <<retries, slept, call>>
    /\ UNCHANGED <<svcVars, parseVars, delayVars, constructVars, singletonVars, extVars>>

\* ... answers with a non-200 status: handle_api_error raises.
RequestHttpError(o) ==
    /\ spc = "fetching" /\ cpc = "calling"
    /\ sent' = Append(sent, Send(call))
    /\ o \in HttpErrors
    /\ outcomes' = Append(outcomes, o)
    /\ apiLog' = Append(apiLog, o.status)
    /\ cpc' = "raised"
    /\ clientRes' = Raised(HandleApiError(o.status, o.body))
    /\ UNCHANGED <<retries, slept, call>>
    /\ UNCHANGED <<svcVars, parseVars, delayVars, constructVars, singletonVars, extVars>>

\* Mutant: the wait before a retry is retry_delay, not retry_delay * attempt.
RequestTimeout_ConstantDelay ==
    /\ spc = "fetching" /\ cpc = "calling"
    /\ sent' = Append(sent, Send(call))
    /\ outcomes' = Append(outcomes, TimeoutOut)
    /\ apiLog' = Append(apiLog, 504)
    /\ IF RetryTimeout(retries)
       THEN /\ slept' = Append(slept, RetryDelay)
            /\ retries' = retries + 1
            /\ call' = Recurse(call)
            /\ UNCHANGED <<cpc, clientRes>>
       ELSE /\ cpc' = "raised"
            /\ clientRes' = Raised(Error("APITimeoutError", NoStatus, NONE, "client"))
            /\ UNCHANGED <<retries, slept, call>>
    /\ UNCHANGED <<svcVars, parseVars, delayVars, constructVars, singletonVars, extVars>>

\* ... raises requests.exceptions.Timeout.
RequestTimeout ==
    /\ spc = "fetching" /\ cpc = "calling"
    /\ sent' = Append(sent, Send(call))
    /\ outcomes' = Append(outcomes, TimeoutOut)
    /\ apiLog' = Append(apiLog, 504)
    /\ IF RetryTimeout(retries)
       THEN /\ slept' = Append(slept, RetryDelay * (retries + 1))
            /\ retries' = retries + 1
            /\ call' = Recurse(call)
            /\ UNCHANGED <<cpc, clientRes>>
       ELSE /\ cpc' = "raised"
            /\ clientRes' = Raised(Error("APITimeoutError", NoStatus, NONE, "client"))
            /\ UNCHANGED <<retries, slept, call>>
    /\ UNCHANGED <<svcVars, parseVars, delayVars, constructVars, singletonVars, extVars>>

\* Mutant: a connection failure is not passed to log_api_request.
RequestConnectionError_NoLog ==
    /\ spc = "fetching" /\ cpc = "calling"
    /\ sent' = Append(sent, Send(call))
    /\ outcomes' = Append(outcomes, ConnErrOut)
    /\ apiLog' = apiLog
    /\ IF RetryConnectionError(retries)
       THEN /\ slept' = Append(slept, RetryDelay * (retries + 1))
            /\ retries' = retries + 1
            /\ call' = Recurse(call)
            /\ UNCHANGED <<cpc, clientRes>>
       ELSE /\ cpc' = "raised"
            /\ clientRes' = Raised(Error("ExternalAPIError", NoStatus, NONE, "client"))
            /\ UNCHANGED <<retries, slept, call>>
    /\ UNCHANGED <<svcVars, parseVars, delayVars, constructVars, singletonVars, extVars>>

\* ... raises requests.exceptions.ConnectionError.
RequestConnectionError ==
    /\ spc = "fetching" /\ cpc = "calling"
    /\ sent' = Append(sent, Send(call))
    /\ outcomes' = Append(outcomes, ConnErrOut)
    /\ apiLog' = Append(apiLog, 0)
    /\ IF RetryConnectionError(retries)
       THEN /\ slept' = Append(slept, RetryDelay * (retries + 1))
            /\ retries' = retries + 1
            /\ call' = Recurse(call)
            /\ UNCHANGED <<cpc, clientRes>>
       ELSE /\ cpc' = "raised"
            /\ clientRes' = Raised(Error("ExternalAPIError", NoStatus, NONE, "client"))
            /\ UNCHANGED <<retries, slept, call>>
    /\ UNCHANGED <<svcVars, parseVars, delayVars, constructVars, singletonVars, extVars>>

\* ... raises another requests.exceptions.RequestException.
RequestException ==
    /\ spc = "fetching" /\ cpc = "calling"
    /\ sent' = Append(sent, Send(call))
    /\ outcomes' = Append(outcomes, ReqExcOut)
    /\ apiLog' = Append(apiLog, 0)
    /\ cpc' = "raised"
    /\ clientRes' = Raised(Error("ExternalAPIError", NoStatus, NONE, "client"))
    /\ UNCHANGED <<retries, slept, call>>
    /\ UNCHANGED <<svcVars, parseVars, delayVars, constructVars, singletonVars, extVars>>

\* --------------------------------------------- service and route layer
\* The route handler arrivals calls get_arrivals, which calls the client.
GetArrivals(crs_code) ==
    /\ spc = "idle"
    /\ route' = "arrivals"
    /\ spc' = "fetching"
    /\ crs' = crs_code
    /\ phase' = "arr"
    /\ arrivalsRes' = NoResult
    /\ departuresRes' = NoResult
    /\ statusRes' = NoStatusRes
    /\ httpStatus' = 0
    /\ StartClientCall(ArrivalBoardRequest(crs_code, DefaultNumRows))
    /\ UNCHANGED <<parseVars, delayVars, constructVars, singletonVars, extVars>>

GetDepartures(crs_code) ==
    /\ spc = "idle"
    /\ route' = "departures"
    /\ spc' = "fetching"
    /\ crs' = crs_code
    /\ phase' = "dep"
    /\ arrivalsRes' = NoResult
    /\ departuresRes' = NoResult
    /\ statusRes' = NoStatusRes
    /\ httpStatus' = 0
    /\ StartClientCall(DepartureBoardRequest(crs_code, DefaultNumRows))
    /\ UNCHANGED <<parseVars, delayVars, constructVars, singletonVars, extVars>>

\* The route handler station_status calls get_station_status, which first
\* calls get_arrivals.
GetStationStatus(crs_code) ==
    /\ spc = "idle"
    /\ route' = "status"
    /\ spc' = "fetching"
    /\ crs' = crs_code
    /\ phase' = "arr"
    /\ arrivalsRes' = NoResult
    /\ departuresRes' = NoResult
    /\ statusRes' = NoStatusRes
    /\ httpStatus' = 0
    /\ StartClientCall(ArrivalBoardRequest(crs_code, StatusNumRows))
    /\ UNCHANGED <<parseVars, delayVars, constructVars, singletonVars, extVars>>

ClientDone == cpc \in {"returned", "raised"}

\* get_arrivals finishes and the route handler answers.
ArrivalsReturn ==
    /\ spc = "fetching" /\ route = "arrivals" /\ ClientDone
    /\ arrivalsRes' = FetchResult(clientRes, TRUE)
    /\ httpStatus' = RouteStatus(arrivalsRes')
    /\ spc' = "done"
    /\ phase' = "none"
    /\ UNCHANGED <<route, crs, departuresRes, statusRes, clientVars, parseVars, delayVars, constructVars, singletonVars, extVars>>

\* get_departures finishes and the route handler answers.
DeparturesReturn ==
    /\ spc = "fetching" /\ route = "departures" /\ ClientDone
    /\ departuresRes' = FetchResult(clientRes, FALSE)
    /\ httpStatus' = RouteStatus(departuresRes')
    /\ spc' = "done"
    /\ phase' = "none"
    /\ UNCHANGED <<route, crs, arrivalsRes, statusRes, clientVars, parseVars, delayVars, constructVars, singletonVars, extVars>>

\* get_station_status: get_arrivals finished; on success get_departures is
\* called, on failure the except clause returns the error dict.
StatusArrivalsFetched ==
    /\ spc = "fetching" /\ route = "status" /\ phase = "arr" /\ ClientDone
    /\ arrivalsRes' = FetchResult(clientRes, TRUE)
    /\ IF arrivalsRes'.kind = "return"
       THEN /\ phase' = "dep"
            /\ StartClientCall(DepartureBoardRequest(crs, StatusNumRows))
            /\ UNCHANGED <<spc, statusRes, httpStatus>>
       ELSE /\ statusRes' = StatusError(crs, arrivalsRes'.error)
            /\ httpStatus' = 200
            /\ spc' = "done"
            /\ phase' = "none"
            /\ UNCHANGED clientVars
    /\ UNCHANGED <<route, crs, departuresRes, parseVars, delayVars, constructVars, singletonVars, extVars>>

\* get_station_status: get_departures finished; the summary (or the error
\* dict) is returned and the route handler answers.
StatusDeparturesFetched ==
    /\ spc = "fetching" /\ route = "status" /\ phase = "dep" /\ ClientDone
    /\ departuresRes' = FetchResult(clientRes, FALSE)
    /\ statusRes' = IF departuresRes'.kind = "return"
                    THEN StatusSummary(crs, arrivalsRes.services, departuresRes'.services)
                    ELSE StatusError(crs, departuresRes'.error)
    /\ httpStatus' = 200
    /\ spc' = "done"
    /\ phase' = "none"
    /\ UNCHANGED <<route, crs, arrivalsRes, clientVars, parseVars, delayVars, constructVars, singletonVars, extVars>>

\* The response has been sent; the next request may start.
NextRequest ==
    /\ spc = "done"
    /\ spc' = "idle"
    /\ UNCHANGED <<route, crs, phase, arrivalsRes, departuresRes, statusRes, httpStatus>>
    /\ UNCHANGED <<clientVars, parseVars, delayVars, constructVars, singletonVars, extVars>>

Next ==
    \/ \E c \in CrsCodes : GetArrivals(c)
    \/ \E c \in CrsCodes : GetDepartures(c)
    \/ \E c \in CrsCodes : GetStationStatus(c)
    \/ \E o \in Http200 : RequestOk(o)
    \/ \E o \in Http200Bad : RequestUndecodable(o)
    \/ \E o \in HttpErrors : RequestHttpError(o)
    \/ RequestTimeout
    \/ RequestConnectionError
    \/ RequestException
    \/ ArrivalsReturn
    \/ DeparturesReturn
    \/ StatusArrivalsFetched
    \/ StatusDeparturesFetched
    \/ NextRequest

Spec == Init /\ [][Next]_vars

\* ------------------------------------------- SpecParse: the normalizer
InitParse ==
    /\ ServiceIdle /\ ClientIdle /\ DelaysIdle /\ ConstructIdle /\ SingletonIdle /\ ExtIdle
    /\ ppc = "input"
    /\ raw \in RawRecords
    /\ is_arrival \in BOOLEAN
    /\ parsed = ParseFailure

\* self._parse_service_data(raw, is_arrival)
ParseRecord ==
    /\ ppc = "input"
    /\ parsed' = ParseServiceData(raw, is_arrival)
    /\ ppc' = "done"
    /\ UNCHANGED <<raw, is_arrival, svcVars, clientVars, delayVars, constructVars, singletonVars, extVars>>

NextParse == ParseRecord

SpecParse == InitParse /\ [][NextParse]_vars

\* ------------------------------------ SpecDelays: check_service_delays
DelayTimes == {"", "09:15", "09:20", "On time", "Cancelled", "Delayed"}

\* TrainService objects as the normalizer or a caller may construct them.
DelayServices ==
    {[NoService EXCEPT !.scheduled_time = s, !.expected_time = e, !.status = e] :
        s \in DelayTimes, e \in DelayTimes}

Thresholds == {5, 30}

InitDelays ==
    /\ ServiceIdle /\ ClientIdle /\ ParseIdle /\ ConstructIdle /\ SingletonIdle /\ ExtIdle
    /\ dpc = "input"
    /\ services \in UNION {[1..n -> DelayServices] : n \in 0..MaxServices}
    /\ threshold_minutes \in Thresholds
    /\ delayed = <<>>

\* self.check_service_delays(services, threshold_minutes)
CheckDelays ==
    /\ dpc = "input"
    /\ delayed' = CheckServiceDelays(services, threshold_minutes)
    /\ dpc' = "done"
    /\ UNCHANGED <<services, threshold_minutes, svcVars, clientVars, parseVars, constructVars, singletonVars, extVars>>

NextDelays == CheckDelays

SpecDelays == InitDelays /\ [][NextDelays]_vars

\* ------------------------------------------- RailDataClient(settings)
InitConstruct ==
    /\ ServiceIdle /\ ClientIdle /\ ParseIdle /\ DelaysIdle /\ SingletonIdle /\ ExtIdle
    /\ kpc = "start"
    /\ settingsArg \in {NoSettings} \cup SettingsSet
    /\ envSettings \in SettingsSet
    /\ selfSettings = NoSettings
    /\ session = NoSession
    /\ constructed = FALSE

\* Mutant: the session is set up before the configuration is validated.
ValidateConfiguration_SessionFirst ==
    /\ kpc = "start"
    /\ selfSettings' = ResolveSettings(settingsArg, envSettings)
    /\ session' = SetupAuthentication(selfSettings')
    /\ kpc' = IF ValidConfiguration(selfSettings') THEN "validated" ELSE "raised"
    /\ UNCHANGED <<settingsArg, envSettings, constructed>>
    /\ UNCHANGED <<svcVars, clientVars, parseVars, delayVars, singletonVars, extVars>>

\* self.settings = settings or get_settings(); self._validate_configuration()
ValidateConfiguration ==
    /\ kpc = "start"
    /\ selfSettings' = ResolveSettings(settingsArg, envSettings)
    /\ kpc' = IF ValidConfiguration(selfSettings') THEN "validated" ELSE "raised"
    /\ UNCHANGED <<settingsArg, envSettings, session, constructed>>
    /\ UNCHANGED <<svcVars, clientVars, parseVars, delayVars, singletonVars, extVars>>

\* self.session = requests.Session(); self._setup_authentication()
CreateSession ==
    /\ kpc = "validated"
    /\ session' = SetupAuthentication(selfSettings)
    /\ kpc' = "session"
    /\ UNCHANGED <<settingsArg, envSettings, selfSettings, constructed>>
    /\ UNCHANGED <<svcVars, clientVars, parseVars, delayVars, singletonVars, extVars>>

\* timeout, max_retries, retry_delay are set and __init__ returns: the
\* constructor expression yields the instance.
FinishInit ==
    /\ kpc = "session"
    /\ constructed' = TRUE
    /\ kpc' = "done"
    /\ UNCHANGED <<settingsArg, envSettings, selfSettings, session>>
    /\ UNCHANGED <<svcVars, clientVars, parseVars, delayVars, singletonVars, extVars>>

NextConstruct ==
    \/ ValidateConfiguration
    \/ CreateSession
    \/ FinishInit

SpecConstruct == InitConstruct /\ [][NextConstruct]_vars

\* ----------------------- get_/set_rail_data_client, get_/set_train_service
InitSingleton ==
    /\ ServiceIdle /\ ClientIdle /\ ParseIdle /\ DelaysIdle /\ ConstructIdle /\ ExtIdle
    /\ configOk \in BOOLEAN
    /\ client_instance = NoInstance
    /\ train_service = NoInstance
    /\ tpc = [t \in Threads |-> "idle"]
    /\ top = [t \in Threads |-> "none"]
    /\ tmp = [t \in Threads |-> NoInstance]
    /\ result = [t \in Threads |-> "none"]
    /\ clientsBuilt = 0
    /\ servicesBuilt = 0
    /\ returnedClients = {}
    /\ returnedServices = {}
    /\ setCalls = 0

\* A thread calls get_rail_data_client().
GetRailDataClient(t) ==
    /\ tpc[t] = "idle"
    /\ tpc' = [tpc EXCEPT ![t] = "c_check"]
    /\ top' = [top EXCEPT ![t] = "client"]
    /\ UNCHANGED <<configOk, client_instance, train_service, tmp, result, clientsBuilt,
                   servicesBuilt, returnedClients, returnedServices, setCalls>>
    /\ UNCHANGED <<svcVars, clientVars, parseVars, delayVars, constructVars, extVars>>

\* `if _client_instance is None:`
ClientCheck(t) ==
    /\ tpc[t] = "c_check"
    /\ tpc' = [tpc EXCEPT ![t] = IF client_instance = NoInstance
                                 THEN "c_construct" ELSE "c_return"]
    /\ UNCHANGED <<configOk, client_instance, train_service, top, tmp, result, clientsBuilt,
                   servicesBuilt, returnedClients, returnedServices, setCalls>>
    /\ UNCHANGED <<svcVars, clientVars, parseVars, delayVars, constructVars, extVars>>

\* `RailDataClient()`: a new instance, or ConfigurationError, which leaves
\* get_rail_data_client (and TrainDataService() and get_train_service when
\* the call is nested in them).
ClientConstruct(t) ==
    /\ tpc[t] = "c_construct"
    /\ IF configOk
       THEN /\ clientsBuilt' = clientsBuilt + 1
            /\ tmp' = [tmp EXCEPT ![t] = ClientInstance(clientsBuilt + 1)]
            /\ tpc' = [tpc EXCEPT ![t] = "c_store"]
            /\ UNCHANGED <<top, result>>
       ELSE /\ result' = [result EXCEPT ![t] = "raise"]
            /\ tpc' = [tpc EXCEPT ![t] = "idle"]
            /\ top' = [top EXCEPT ![t] = "none"]
            /\ UNCHANGED <<tmp, clientsBuilt>>
    /\ UNCHANGED <<configOk, client_instance, train_service,
                   servicesBuilt, returnedClients, returnedServices, setCalls>>
    /\ UNCHANGED <<svcVars, clientVars, parseVars, delayVars, constructVars, extVars>>

\* `_client_instance = <the new instance>`
ClientStore(t) ==
    /\ tpc[t] = "c_store"
    /\ client_instance' = tmp[t]
    /\ tmp' = [tmp EXCEPT ![t] = NoInstance]
    /\ tpc' = [tpc EXCEPT ![t] = "c_return"]
    /\ UNCHANGED <<configOk, train_service, top, result, clientsBuilt,
                   servicesBuilt, returnedClients, returnedServices, setCalls>>
    /\ UNCHANGED <<svcVars, clientVars, parseVars, delayVars, constructVars, extVars>>

\* `return _client_instance` reads the global again; the value goes to the
\* caller, which is the thread itself or TrainDataService.__init__.
ClientReturn(t) ==
    /\ tpc[t] = "c_return"
    /\ returnedClients' = returnedClients \cup {client_instance}
    /\ IF top[t] = "client"
       THEN /\ result' = [result EXCEPT ![t] = "return"]
            /\ tpc' = [tpc EXCEPT ![t] = "idle"]
            /\ top' = [top EXCEPT ![t] = "none"]
            /\ UNCHANGED tmp
       ELSE /\ tmp' = [tmp EXCEPT ![t] = client_instance]
            /\ tpc' = [tpc EXCEPT ![t] = "s_construct"]
            /\ UNCHANGED <<top, result>>
    /\ UNCHANGED <<configOk, client_instance, train_service, clientsBuilt,
                   servicesBuilt, setCalls, returnedServices>>
    /\ UNCHANGED <<svcVars, clientVars, parseVars, delayVars, constructVars, extVars>>

\* A thread calls get_train_service().
GetTrainService(t) ==
    /\ tpc[t] = "idle"
    /\ tpc' = [tpc EXCEPT ![t] = "s_check"]
    /\ top' = [top EXCEPT ![t] = "service"]
    /\ UNCHANGED <<configOk, client_instance, train_service, tmp, result, clientsBuilt,
                   servicesBuilt, returnedClients, returnedServices, setCalls>>
    /\ UNCHANGED <<svcVars, clientVars, parseVars, delayVars, constructVars, extVars>>

\* `if _train_service is None:`; when it is, TrainDataService() starts and
\* its __init__ calls get_rail_data_client().
ServiceCheck(t) ==
    /\ tpc[t] = "s_check"
    /\ tpc' = [tpc EXCEPT ![t] = IF train_service = NoInstance
                                 THEN "c_check" ELSE "s_return"]
    /\ UNCHANGED <<configOk, client_instance, train_service, top, tmp, result, clientsBuilt,
                   servicesBuilt, returnedClients, returnedServices, setCalls>>
    /\ UNCHANGED <<svcVars, clientVars, parseVars, delayVars, constructVars, extVars>>

\* TrainDataService.__init__ finishes with self.rail_client set.
ServiceConstruct(t) ==
    /\ tpc[t] = "s_construct"
    /\ servicesBuilt' = servicesBuilt + 1
    /\ tmp' = [tmp EXCEPT ![t] = ServiceInstance(servicesBuilt + 1, tmp[t])]
    /\ tpc' = [tpc EXCEPT ![t] = "s_store"]
    /\ UNCHANGED <<configOk, client_instance, train_service, top, result, clientsBuilt,
                   returnedClients, returnedServices, setCalls>>
    /\ UNCHANGED <<svcVars, clientVars, parseVars, delayVars, constructVars, extVars>>

\* `_train_service = <the new instance>`
ServiceStore(t) ==
    /\ tpc[t] = "s_store"
    /\ train_service' = tmp[t]
    /\ tmp' = [tmp EXCEPT ![t] = NoInstance]
    /\ tpc' = [tpc EXCEPT ![t] = "s_return"]
    /\ UNCHANGED <<configOk, client_instance, top, result, clientsBuilt,
                   servicesBuilt, returnedClients, returnedServices, setCalls>>
    /\ UNCHANGED <<svcVars, clientVars, parseVars, delayVars, constructVars, extVars>>

\* `return _train_service` reads the global again.
ServiceReturn(t) ==
    /\ tpc[t] = "s_return"
    /\ returnedServices' = returnedServices \cup {train_service}
    /\ result' = [result EXCEPT ![t] = "return"]
    /\ tpc' = [tpc EXCEPT ![t] = "idle"]
    /\ top' = [top EXCEPT ![t] = "none"]
    /\ UNCHANGED <<configOk, client_instance, train_service, tmp, clientsBuilt,
                   servicesBuilt, returnedClients, setCalls>>
    /\ UNCHANGED <<svcVars, clientVars, parseVars, delayVars, constructVars, extVars>>

\* set_rail_data_client(client): one store to the global.
SetRailDataClient(t, client) ==
    /\ tpc[t] = "idle"
    /\ setCalls < MaxSets
    /\ client_instance' = client
    /\ setCalls' = setCalls + 1
    /\ UNCHANGED <<configOk, train_service, tpc, top, tmp, result, clientsBuilt,
                   servicesBuilt, returnedClients, returnedServices>>
    /\ UNCHANGED <<svcVars, clientVars, parseVars, delayVars, constructVars, extVars>>

\* set_train_service(service): one store to the global.
SetTrainService(t, service) ==
    /\ tpc[t] = "idle"
    /\ setCalls < MaxSets
    /\ train_service' = service
    /\ setCalls' = setCalls + 1
    /\ UNCHANGED <<configOk, client_instance, tpc, top, tmp, result, clientsBuilt,
                   servicesBuilt, returnedClients, returnedServices>>
    /\ UNCHANGED <<svcVars, clientVars, parseVars, delayVars, constructVars, extVars>>

NextSingleton ==
    \/ \E t \in Threads : GetRailDataClient(t)
    \/ \E t \in Threads : ClientCheck(t)
    \/ \E t \in Threads : ClientConstruct(t)
    \/ \E t \in Threads : ClientStore(t)
    \/ \E t \in Threads : ClientReturn(t)
    \/ \E t \in Threads : GetTrainService(t)
    \/ \E t \in Threads : ServiceCheck(t)
    \/ \E t \in Threads : ServiceConstruct(t)
    \/ \E t \in Threads : ServiceStore(t)
    \/ \E t \in Threads : ServiceReturn(t)
    \/ \E t \in Threads, c \in {NoInstance, InjectedClient} : SetRailDataClient(t, c)
    \/ \E t \in Threads, v \in {NoInstance, InjectedService} : SetTrainService(t, v)

SpecSingleton == InitSingleton /\ [][NextSingleton]_vars

\* ------------- the singleton functions called one after the other
\* One entry of calls: the function, the value passed or returned, whether
\* the call raised ConfigurationError and whether it ran RailDataClient().
Call(fn, value, raised, attempted) ==
    [fn |-> fn, value |-> value, raised |-> raised, attempted |-> attempted]

\* A second instance a caller may pass to set_train_service.
OtherInjectedService == ServiceInstance(0, NoInstance)

InitSequential ==
    /\ ServiceIdle /\ ClientIdle /\ ParseIdle /\ DelaysIdle /\ ConstructIdle
    /\ InitSingleton
    /\ calls = <<>> /\ CacheIdle /\ NotifyIdle

\* Mutant: a failed construction leaves a half-built instance in the global.
SeqGetRailDataClient_StoresBeforeInit ==
    /\ Len(calls) < MaxCalls
    /\ IF client_instance # NoInstance
       THEN /\ calls' = Append(calls, Call("get_rail_data_client", client_instance, FALSE, FALSE))
            /\ UNCHANGED <<client_instance, clientsBuilt>>
       ELSE IF configOk
            THEN /\ client_instance' = ClientInstance(clientsBuilt + 1)
                 /\ clientsBuilt' = clientsBuilt + 1
                 /\ calls' = Append(calls, Call("get_rail_data_client", client_instance', FALSE, TRUE))
            ELSE /\ client_instance' = ClientInstance(clientsBuilt + 1)
                 /\ clientsBuilt' = clientsBuilt + 1
                 /\ calls' = Append(calls, Call("get_rail_data_client", NoInstance, TRUE, TRUE))
    /\ UNCHANGED <<configOk, train_service, tpc, top, tmp, result, servicesBuilt,
                   returnedClients, returnedServices, setCalls>>
    /\ UNCHANGED <<svcVars, clientVars, parseVars, delayVars, constructVars, cacheVars, notifyVars>>

\* get_rail_data_client() run to completion.
SeqGetRailDataClient ==
    /\ Len(calls) < MaxCalls
    /\ IF client_instance # NoInstance
       THEN /\ calls' = Append(calls, Call("get_rail_data_client", client_instance, FALSE, FALSE))
            /\ UNCHANGED <<client_instance, clientsBuilt>>
       ELSE IF configOk
            THEN /\ client_instance' = ClientInstance(clientsBuilt + 1)
                 /\ clientsBuilt' = clientsBuilt + 1
                 /\ calls' = Append(calls, Call("get_rail_data_client", client_instance', FALSE, TRUE))
            ELSE /\ calls' = Append(calls, Call("get_rail_data_client", NoInstance, TRUE, TRUE))
                 /\ UNCHANGED <<client_instance, clientsBuilt>>
    /\ UNCHANGED <<configOk, train_service, tpc, top, tmp, result, servicesBuilt,
                   returnedClients, returnedServices, setCalls>>
    /\ UNCHANGED <<svcVars, clientVars, parseVars, delayVars, constructVars, cacheVars, notifyVars>>

\* Mutant: get_train_service constructs a new service on every call.
SeqGetTrainService_AlwaysConstructs ==
    /\ Len(calls) < MaxCalls
    /\ IF client_instance # NoInstance
       THEN /\ train_service' = ServiceInstance(servicesBuilt + 1, client_instance)
            /\ servicesBuilt' = servicesBuilt + 1
            /\ calls' = Append(calls, Call("get_train_service", train_service', FALSE, FALSE))
            /\ UNCHANGED <<client_instance, clientsBuilt>>
       ELSE IF configOk
            THEN /\ client_instance' = ClientInstance(clientsBuilt + 1)
                 /\ clientsBuilt' = clientsBuilt + 1
                 /\ train_service' = ServiceInstance(servicesBuilt + 1, client_instance')
                 /\ servicesBuilt' = servicesBuilt + 1
                 /\ calls' = Append(calls, Call("get_train_service", train_service', FALSE, TRUE))
            ELSE /\ calls' = Append(calls, Call("get_train_service", NoInstance, TRUE, TRUE))
                 /\ UNCHANGED <<client_instance, clientsBuilt, train_service, servicesBuilt>>
    /\ UNCHANGED <<configOk, tpc, top, tmp, result,
                   returnedClients, returnedServices, setCalls>>
    /\ UNCHANGED <<svcVars, clientVars, parseVars, delayVars, constructVars, cacheVars, notifyVars>>

\* get_train_service() run to completion; TrainDataService() runs
\* get_rail_data_client() when the service has to be constructed.
SeqGetTrainService ==
    /\ Len(calls) < MaxCalls
    /\ IF train_service # NoInstance
       THEN /\ calls' = Append(calls, Call("get_train_service", train_service, FALSE, FALSE))
            /\ UNCHANGED <<client_instance, clientsBuilt, train_service, servicesBuilt>>
       ELSE IF client_instance # NoInstance
            THEN /\ train_service' = ServiceInstance(servicesBuilt + 1, client_instance)
                 /\ servicesBuilt' = servicesBuilt + 1
                 /\ calls' = Append(calls, Call("get_train_service", train_service', FALSE, FALSE))
                 /\ UNCHANGED <<client_instance, clientsBuilt>>
            ELSE IF configOk
                 THEN /\ client_instance' = ClientInstance(clientsBuilt + 1)
                      /\ clientsBuilt' = clientsBuilt + 1
                      /\ train_service' = ServiceInstance(servicesBuilt + 1, client_instance')
                      /\ servicesBuilt' = servicesBuilt + 1
                      /\ calls' = Append(calls, Call("get_train_service", train_service', FALSE, TRUE))
                 ELSE /\ calls' = Append(calls, Call("get_train_service", NoInstance, TRUE, TRUE))
                      /\ UNCHANGED <<client_instance, clientsBuilt, train_service, servicesBuilt>>
    /\ UNCHANGED <<configOk, tpc, top, tmp, result,
                   returnedClients, returnedServices, setCalls>>
    /\ UNCHANGED <<svcVars, clientVars, parseVars, delayVars, constructVars, cacheVars, notifyVars>>

\* set_rail_data_client(client)
SeqSetRailDataClient(client) ==
    /\ Len(calls) < MaxCalls
    /\ client_instance' = client
    /\ calls' = Append(calls, Call("set_rail_data_client", client, FALSE, FALSE))
    /\ UNCHANGED <<configOk, train_service, tpc, top, tmp, result, clientsBuilt, servicesBuilt,
                   returnedClients, returnedServices, setCalls>>
    /\ UNCHANGED <<svcVars, clientVars, parseVars, delayVars, constructVars, cacheVars, notifyVars>>

\* set_train_service(service)
SeqSetTrainService(service) ==
    /\ Len(calls) < MaxCalls
    /\ train_service' = service
    /\ calls' = Append(calls, Call("set_train_service", service, FALSE, FALSE))
    /\ UNCHANGED <<configOk, client_instance, tpc, top, tmp, result, clientsBuilt, servicesBuilt,
                   returnedClients, returnedServices, setCalls>>
    /\ UNCHANGED <<svcVars, clientVars, parseVars, delayVars, constructVars, cacheVars, notifyVars>>

NextSequential ==
    \/ SeqGetRailDataClient
    \/ SeqGetTrainService
    \/ \E c \in {NoInstance, InjectedClient} : SeqSetRailDataClient(c)
    \/ \E v \in {NoInstance, InjectedService, OtherInjectedService} : SeqSetTrainService(v)

SpecSequential == InitSequential /\ [][NextSequential]_vars

\* ------------------------------------- get_settings under lru_cache
\* One entry of settingsLog: the operation, the instance a get returned
\* and the environment at that moment.
SettingsOp(op, value, env) == [op |-> op, value |-> value, env |-> env]

InitSettings ==
    /\ ServiceIdle /\ ClientIdle /\ ParseIdle /\ DelaysIdle /\ ConstructIdle
    /\ SingletonIdle /\ SeqIdle /\ NotifyIdle
    /\ environ \in EnvValues
    /\ cache = NoCached
    /\ settingsBuilt = 0
    /\ settingsLog = <<>>

\* Mutant: get_settings without the lru_cache decorator.
GetSettings_Uncached ==
    /\ Len(settingsLog) < MaxOps
    /\ cache' = SettingsInstance(settingsBuilt + 1, environ)
    /\ settingsBuilt' = settingsBuilt + 1
    /\ settingsLog' = Append(settingsLog, SettingsOp("get", cache', environ))
    /\ UNCHANGED environ
    /\ UNCHANGED <<svcVars, clientVars, parseVars, delayVars, constructVars, singletonVars, seqVars, notifyVars>>

\* get_settings(): a cache hit returns the held instance, a miss runs
\* Settings(), which reads the environment, and caches the result.
GetSettings ==
    /\ Len(settingsLog) < MaxOps
    /\ IF cache # NoCached
       THEN /\ settingsLog' = Append(settingsLog, SettingsOp("get", cache, environ))
            /\ UNCHANGED <<cache, settingsBuilt>>
       ELSE /\ cache' = SettingsInstance(settingsBuilt + 1, environ)
            /\ settingsBuilt' = settingsBuilt + 1
            /\ settingsLog' = Append(settingsLog, SettingsOp("get", cache', environ))
    /\ UNCHANGED environ
    /\ UNCHANGED <<svcVars, clientVars, parseVars, delayVars, constructVars, singletonVars, seqVars, notifyVars>>

\* get_settings.cache_clear()
CacheClear ==
    /\ Len(settingsLog) < MaxOps
    /\ cache' = NoCached
    /\ settingsLog' = Append(settingsLog, SettingsOp("clear", NoCached, environ))
    /\ UNCHANGED <<environ, settingsBuilt>>
    /\ UNCHANGED <<svcVars, clientVars, parseVars, delayVars, constructVars, singletonVars, seqVars, notifyVars>>

\* The environment variable is given another value.
SetEnviron(v) ==
    /\ Len(settingsLog) < MaxOps
    /\ v # environ
    /\ environ' = v
    /\ settingsLog' = Append(settingsLog, SettingsOp("setenv", NoCached, v))
    /\ UNCHANGED <<cache, settingsBuilt>>
    /\ UNCHANGED <<svcVars, clientVars, parseVars, delayVars, constructVars, singletonVars, seqVars, notifyVars>>

NextSettings ==
    \/ GetSettings
    \/ CacheClear
    \/ \E v \in EnvValues : SetEnviron(v)

SpecSettings == InitSettings /\ [][NextSettings]_vars

\* ------------------------------- notifier and NotificationService
InitNotify ==
    /\ ServiceIdle /\ ClientIdle /\ ParseIdle /\ DelaysIdle /\ ConstructIdle
    /\ SingletonIdle /\ SeqIdle /\ CacheIdle
    /\ notifier \in Notifiers
    /\ notifyLog = <<>>

NotifyUnchanged ==
    UNCHANGED <<svcVars, clientVars, parseVars, delayVars, constructVars, singletonVars,
                seqVars, cacheVars>>

\* notifier.enable()
Enable ==
    /\ Len(notifyLog) < MaxNotify
    /\ notifier.kind # "absent"
    /\ notifier' = [notifier EXCEPT !.enabled = TRUE]
    /\ notifyLog' = Append(notifyLog, NotifyCall("enable", notifier, NONE, NONE, FALSE, NoResultYet))
    /\ NotifyUnchanged

\* notifier.disable()
Disable ==
    /\ Len(notifyLog) < MaxNotify
    /\ notifier.kind # "absent"
    /\ notifier' = [notifier EXCEPT !.enabled = FALSE]
    /\ notifyLog' = Append(notifyLog, NotifyCall("disable", notifier, NONE, NONE, FALSE, NoResultYet))
    /\ NotifyUnchanged

\* notifier.send_if_enabled(message)
SendIfEnabled(recipient, provider) ==
    /\ Len(notifyLog) < MaxNotify
    /\ notifier.kind # "absent"
    /\ notifyLog' = Append(notifyLog,
           NotifyCall("send_if_enabled", notifier, recipient, provider,
                      InvokesSend(notifier, recipient),
                      SendIfEnabledResult(notifier, recipient, provider)))
    /\ UNCHANGED notifier
    /\ NotifyUnchanged

\* NotificationService.enable_notifier(notification_type)
EnableNotifier ==
    /\ Len(notifyLog) < MaxNotify
    /\ notifier' = IF notifier.kind = "absent"
                   THEN notifier
                   ELSE [notifier EXCEPT !.enabled = TRUE]
    /\ notifyLog' = Append(notifyLog, NotifyCall("enable_notifier", notifier, NONE, NONE, FALSE, NoResultYet))
    /\ NotifyUnchanged

\* NotificationService.disable_notifier(notification_type)
DisableNotifier ==
    /\ Len(notifyLog) < MaxNotify
    /\ notifier' = IF notifier.kind = "absent"
                   THEN notifier
                   ELSE [notifier EXCEPT !.enabled = FALSE]
    /\ notifyLog' = Append(notifyLog, NotifyCall("disable_notifier", notifier, NONE, NONE, FALSE, NoResultYet))
    /\ NotifyUnchanged

\* NotificationService.send_notification(notification_type, message)
SendNotification(recipient, provider) ==
    /\ Len(notifyLog) < MaxNotify
    /\ notifyLog' = Append(notifyLog,
           NotifyCall("send_notification", notifier, recipient, provider,
                      notifier.kind # "absent" /\ InvokesSend(notifier, recipient),
                      SendNotificationResult(notifier, recipient, provider)))
    /\ UNCHANGED notifier
    /\ NotifyUnchanged

NextNotify ==
    \/ Enable
    \/ Disable
    \/ \E r \in Recipients, p \in Providers : SendIfEnabled(r, p)
    \/ EnableNotifier
    \/ DisableNotifier
    \/ \E r \in Recipients, p \in Providers : SendNotification(r, p)

SpecNotify == InitNotify /\ [][NextNotify]_vars

\* ================================================================ claims
\* Helpers of the formulas below.
LastOutcome == outcomes[Len(outcomes)]

AllTimeouts ==
    /\ Len(outcomes) > 0
    /\ \A i \in 1..Len(outcomes) : outcomes[i].kind = "timeout"

NetworkFailure(o) == o.kind \in {"timeout", "connerr"}

TopLevelFetch == IF route = "arrivals" THEN arrivalsRes ELSE departuresRes

\* Number of services of a list that check_service_delays flags.
FlaggedCount(svcs) ==
    Cardinality({i \in 1..Len(svcs) : FlagsDelayed(svcs[i])})

\* The records of a batch that normalize, normalized, in batch order.
NormalizedInOrder(batch, arrival) ==
    LET good == SelectSeq(batch, LAMBDA r : ParseServiceData(r, arrival).ok)
    IN  [i \in 1..Len(good) |-> ParseServiceData(good[i], arrival).service]

\* C1: a client call whose every upstream attempt times out is retried
\* exactly max_retries times (max_retries + 1 requests) and then raises
\* APITimeoutError; it never returns a payload and raises nothing else.
C1_TimeoutsRetriedThenTimeoutError ==
    AllTimeouts =>
        /\ Len(outcomes) <= MaxRetries + 1
        /\ cpc # "returned"
        /\ (Len(outcomes) <= MaxRetries => cpc = "calling" /\ retries = Len(outcomes))
        /\ (Len(outcomes) = MaxRetries + 1 =>
               /\ cpc = "raised"
               /\ retries = MaxRetries
               /\ clientRes.kind = "raise"
               /\ clientRes.error.kind = "APITimeoutError")

C1_Witness ==
    /\ AllTimeouts
    /\ Len(outcomes) = MaxRetries + 1
    /\ cpc = "raised"
    /\ clientRes.error.kind = "APITimeoutError"

\* C2: no upstream request follows an HTTP response with a non-200 status
\* (429, any other 4xx/5xx): such an attempt is the last of its call, and
\* every re-attempt directly follows a timeout or a connection failure.
C2_NoRetryAfterHttpResponse ==
    \A i \in 1..Len(outcomes) :
        /\ (outcomes[i].kind = "http" /\ outcomes[i].status # 200 =>
               i = Len(outcomes) /\ cpc = "raised")
        /\ (i > 1 => NetworkFailure(outcomes[i - 1]))

C2_Witness ==
    /\ Len(outcomes) = 2
    /\ NetworkFailure(outcomes[1])
    /\ LastOutcome.kind = "http" /\ LastOutcome.status = 429
    /\ cpc = "raised"

\* C3: every non-200 HTTP status makes the call raise a typed failure and
\* never return: 429 APIRateLimitError, 504 APITimeoutError, any other
\* status ExternalAPIError carrying the status code and the raw body.
C3_Non200RaisesTypedFailure ==
    (Len(outcomes) > 0 /\ LastOutcome.kind = "http" /\ LastOutcome.status # 200) =>
        /\ cpc = "raised"
        /\ clientRes.kind = "raise"
        /\ clientRes.error.kind =
              IF LastOutcome.status = 429 THEN "APIRateLimitError"
              ELSE IF LastOutcome.status = 504 THEN "APITimeoutError"
              ELSE "ExternalAPIError"
        /\ (LastOutcome.status \notin {429, 504} =>
               /\ clientRes.error.status_code = LastOutcome.status
               /\ clientRes.error.response_body = LastOutcome.body)

C3_Witness ==
    /\ Len(outcomes) > 0
    /\ LastOutcome.kind = "http" /\ LastOutcome.status = 204
    /\ LastOutcome.body = "upstream error"
    /\ clientRes.error.kind = "ExternalAPIError"
    /\ clientRes.error.status_code = 204
    /\ clientRes.error.response_body = "upstream error"

\* C4: get_arrivals / get_departures re-raise every client failure
\* unchanged: the caller observes an error of the kind the client raised
\* (ExternalAPIError, APITimeoutError or APIRateLimitError).
C4_ClientErrorsPropagateUnchanged ==
    (spc = "done" /\ route \in {"arrivals", "departures"} /\ clientRes.kind = "raise") =>
        /\ TopLevelFetch.kind = "raise"
        /\ TopLevelFetch.error.kind = clientRes.error.kind

\* C5: get_arrivals / get_departures return exactly the records of the
\* upstream batch that normalize, in upstream order; a record that fails
\* (a null record) is skipped without aborting the batch, so a null record
\* next to a valid one yields exactly one ServiceRecord.
C5_BestEffortPerRecord ==
    (/\ spc = "done" /\ route \in {"arrivals", "departures"}
     /\ clientRes.kind = "return" /\ clientRes.payload.ts = "list") =>
        /\ TopLevelFetch.kind = "return"
        /\ TopLevelFetch.services =
              NormalizedInOrder(clientRes.payload.list, route = "arrivals")
        /\ (\A v \in BoardRecords \ {NullRecord} :
               clientRes.payload.list \in {<<NullRecord, v>>, <<v, NullRecord>>}
                   => Len(TopLevelFetch.services) = 1)

C5_Witness ==
    /\ spc = "done" /\ route = "arrivals"
    /\ clientRes.kind = "return"
    /\ clientRes.payload = [ts |-> "list", list |-> <<NullRecord, Board("09:15", "On time")>>]
    /\ arrivalsRes.kind = "return"
    /\ Len(arrivalsRes.services) = 1
    /\ arrivalsRes.services[1].scheduled_time = "09:15"

\* C6: get_station_status never propagates an exception: when the arrivals
\* or the departures fetch fails it returns a dict with status "error", an
\* error field and the requested crs_code.
C6_StationStatusNeverRaises ==
    (spc = "done" /\ route = "status") =>
        /\ statusRes.status \in {"operational", "delays", "error"}
        /\ (arrivalsRes.kind = "raise" \/ departuresRes.kind = "raise" =>
               /\ statusRes.status = "error"
               /\ "error" \in DOMAIN statusRes
               /\ statusRes.crs_code = crs)

C6_Witness ==
    /\ spc = "done" /\ route = "status" /\ crs = "RDG"
    /\ arrivalsRes.kind = "return"
    /\ departuresRes.kind = "raise"
    /\ clientRes.error.kind = "APITimeoutError"
    /\ statusRes.status = "error"
    /\ statusRes.crs_code = "RDG"

\* C7: when both fetches succeed, get_station_status answers "operational"
\* iff check_service_delays flags no arrival and no departure, "delays"
\* otherwise; the totals are the lengths of the fetched lists and the
\* delayed counts the numbers of flagged services (delayed <= total).
C7_StationStatusSummary ==
    (/\ spc = "done" /\ route = "status"
     /\ arrivalsRes.kind = "return" /\ departuresRes.kind = "return") =>
        LET da == FlaggedCount(arrivalsRes.services)
            dd == FlaggedCount(departuresRes.services)
        IN  /\ statusRes.crs_code = crs
            /\ statusRes.total_arrivals = Len(arrivalsRes.services)
            /\ statusRes.total_departures = Len(departuresRes.services)
            /\ statusRes.delayed_arrivals = da
            /\ statusRes.delayed_departures = dd
            /\ statusRes.delayed_arrivals <= statusRes.total_arrivals
            /\ statusRes.delayed_departures <= statusRes.total_departures
            /\ (statusRes.status = "operational" <=> da + dd = 0)
            /\ (statusRes.status = "delays" <=> da + dd > 0)

C7_Witness ==
    /\ spc = "done" /\ route = "status"
    /\ arrivalsRes.kind = "return" /\ departuresRes.kind = "return"
    /\ statusRes.status = "delays"
    /\ statusRes.total_arrivals = 1 /\ statusRes.delayed_arrivals = 0
    /\ statusRes.total_departures = 1 /\ statusRes.delayed_departures = 1

\* C8: a service whose expected_time is not "Delayed" is in the result of
\* check_service_delays iff expected_time and scheduled_time are non-empty
\* and differ and expected_time is neither "On time" nor "Cancelled"; the
\* flagged services appear in input order, each at most once.
NotMarkedDelayed(service) == service.expected_time # "Delayed"

C8_Rule(service) ==
    /\ service.expected_time # ""
    /\ service.scheduled_time # ""
    /\ service.expected_time # service.scheduled_time
    /\ service.expected_time \notin {"On time", "Cancelled"}

C8_Expected(service) == NotMarkedDelayed(service) /\ C8_Rule(service)

C9_MarkedDelayedIsFlagged ==
    dpc = "done" =>
        \A i \in 1..Len(services) :
            services[i].expected_time = "Delayed" =>
                \E j \in 1..Len(delayed) : delayed[j] = services[i]

\* C10: every ServiceRecord the normalizer produces has status equal to
\* its expected_time, also when the upstream record omits the expected
\* time (expected_time is then the empty string).
C10_StatusEqualsExpectedTime ==
    (ppc = "done" /\ parsed.ok) =>
        parsed.service.status = parsed.service.expected_time

\* C11: in every ServiceRecord scheduled_time and expected_time are never
\* null: a time field the upstream record omits (or nulls) is the empty
\* string; platform, operator, destination, origin and service_id are null
\* when absent upstream.
RawScheduled == IF is_arrival THEN raw.sta ELSE raw.std

RawExpected == IF is_arrival THEN raw.eta ELSE raw.etd

C11_TimesNeverNull ==
    (ppc = "done" /\ parsed.ok) =>
        /\ parsed.service.scheduled_time # NONE
        /\ parsed.service.expected_time # NONE
        /\ (RawScheduled = NONE => parsed.service.scheduled_time = "")
        /\ (RawExpected = NONE => parsed.service.expected_time = "")
        /\ (raw.platform = NONE => parsed.service.platform = NONE)
        /\ (raw.operator = NONE => parsed.service.operator = NONE)
        /\ (~raw.destination.present => parsed.service.destination = NONE)
        /\ (~raw.origin.present => parsed.service.origin = NONE)
        /\ (raw.serviceID = NONE => parsed.service.service_id = NONE)

C11_Witness ==
    /\ ppc = "done" /\ parsed.ok /\ is_arrival
    /\ raw.sta = NONE /\ raw.eta = NONE /\ raw.std = "09:15"
    /\ raw.platform = NONE /\ ~raw.destination.present
    /\ parsed.service.scheduled_time = ""
    /\ parsed.service.expected_time = ""
    /\ parsed.service.platform = NONE

\* C12: field selection is driven by is_arrival alone: with is_arrival the
\* times come from sta / eta and never from std / etd, without it from
\* std / etd and never from sta / eta, also when the record has both pairs.
TimeOf(v) == IF v = NONE THEN "" ELSE v

C12_FieldSelection ==
    (ppc = "done" /\ parsed.ok) =>
        /\ (is_arrival =>
               /\ parsed.service.scheduled_time = TimeOf(raw.sta)
               /\ parsed.service.expected_time = TimeOf(raw.eta))
        /\ (~is_arrival =>
               /\ parsed.service.scheduled_time = TimeOf(raw.std)
               /\ parsed.service.expected_time = TimeOf(raw.etd))

C12_Witness ==
    /\ ppc = "done" /\ parsed.ok /\ is_arrival
    /\ raw.sta = "10:30" /\ raw.eta = "On time"
    /\ raw.std = "09:15" /\ raw.etd = "09:20"
    /\ parsed.service.scheduled_time = "10:30"
    /\ parsed.service.expected_time = "On time"

\* C13: a record whose destination (origin) list is empty or absent
\* normalizes without raising to a null destination (origin); a non-empty
\* list gives the locationName of its first element.
C13_Location(field, value) ==
    IF field.present /\ field.list # <<>>
    THEN value = field.list[1]
    ELSE value = NONE

C13_FirstLocationOrNull ==
    (ppc = "done" /\ ~raw.isNull) =>
        /\ parsed.ok
        /\ C13_Location(raw.destination, parsed.service.destination)
        /\ C13_Location(raw.origin, parsed.service.origin)

C13_Witness ==
    /\ ppc = "done" /\ parsed.ok
    /\ raw.destination = [present |-> TRUE, list |-> <<>>]
    /\ raw.origin = [present |-> TRUE, list |-> <<"Reading", NONE>>]
    /\ parsed.service.destination = NONE
    /\ parsed.service.origin = "Reading"

\* C15: an ExternalAPIError outcome is never retried: every client call
\* that ends by raising ExternalAPIError made exactly one upstream request,
\* also when the cause is a connection failure.
C15_ExternalErrorAfterOneRequest ==
    (cpc = "raised" /\ clientRes.error.kind = "ExternalAPIError") =>
        Len(outcomes) = 1

\* C15 (amended): a call that ends by raising ExternalAPIError makes no
\* request after the attempt that caused it, and every earlier attempt of
\* the call failed with a timeout or a connection failure; an HTTP error
\* response or another request exception is raised at once, whereas a
\* connection failure is retried like a timeout and raises ExternalAPIError
\* only after max_retries retries (max_retries + 1 requests).
C15_ExternalErrorRaisedByLastAttempt ==
    (cpc = "raised" /\ clientRes.error.kind = "ExternalAPIError") =>
        /\ Len(outcomes) = retries + 1
        /\ \A i \in 1..(Len(outcomes) - 1) : NetworkFailure(outcomes[i])
        /\ LastOutcome.kind \in {"http", "connerr", "reqexc"}
        /\ (LastOutcome.kind = "connerr" => Len(outcomes) = MaxRetries + 1)

C15_Witness ==
    /\ cpc = "raised" /\ clientRes.error.kind = "ExternalAPIError"
    /\ Len(outcomes) = MaxRetries + 1
    /\ \A i \in 1..Len(outcomes) : outcomes[i].kind = "connerr"

\* C16: backoff is linear: the wait before the k-th retry of a call is
\* retry_delay * k, so the waits of a call strictly increase and a call
\* that uses all max_retries retries has slept
\* retry_delay * (1 + ... + max_retries); there is no wait before the first
\* attempt or after the last one.
RECURSIVE SumSeq(_)
SumSeq(q) == IF q = <<>> THEN 0 ELSE Head(q) + SumSeq(Tail(q))

C16_LinearBackoff ==
    /\ Len(slept) = retries
    /\ \A k \in 1..Len(slept) : slept[k] = RetryDelay * k
    /\ \A k \in 2..Len(slept) : slept[k] > slept[k - 1]
    /\ (cpc = "calling" => Len(slept) = Len(outcomes))
    /\ (ClientDone => Len(slept) = Len(outcomes) - 1)
    /\ (ClientDone /\ retries = MaxRetries =>
           SumSeq(slept) = RetryDelay * ((MaxRetries * (MaxRetries + 1)) \div 2))

C16_Witness ==
    /\ cpc = "raised"
    /\ Len(outcomes) = MaxRetries + 1
    /\ slept = [k \in 1..MaxRetries |-> RetryDelay * k]

\* C17: the retry counter is per call and bounded: whatever the upstream
\* outcomes, a call makes at most max_retries + 1 requests and then has
\* returned or raised, and every new call starts with zero retries used,
\* whatever the earlier calls on the client did.
C17_Bounded ==
    /\ retries <= MaxRetries
    /\ Len(outcomes) <= MaxRetries + 1
    /\ (cpc = "calling" => retries = Len(outcomes))
    /\ (Len(outcomes) = MaxRetries + 1 => ClientDone)

C17_FreshCounter ==
    (cpc # "calling" /\ cpc' = "calling") => (retries' = 0 /\ outcomes' = <<>>)

C17_RetryCounterPerCallBounded ==
    [] C17_Bounded /\ [][C17_FreshCounter]_vars

C17_Witness ==
    /\ route = "status" /\ spc = "fetching" /\ phase = "dep"
    /\ arrivalsRes.kind = "return"
    /\ cpc = "raised"
    /\ Len(outcomes) = MaxRetries + 1

\* C19: a rate limit or a timeout of the upstream is surfaced distinctly
\* end to end: when the client raises APIRateLimitError (APITimeoutError)
\* during an arrivals or departures request, the route answers with the
\* status EXCEPTION_STATUS_CODES gives that kind, 429 (504), not with 502.
C19_RateLimitAndTimeoutSurfaced ==
    (/\ spc = "done" /\ route \in {"arrivals", "departures"}
     /\ clientRes.kind = "raise"
     /\ clientRes.error.kind \in {"APIRateLimitError", "APITimeoutError"}) =>
        /\ httpStatus = CreateHttpException(clientRes.error)
        /\ httpStatus # 502

\* C18: when the first k attempts of a client call (0 <= k <= max_retries)
\* fail with a timeout or a connection failure and attempt k+1 receives
\* HTTP 200, the call returns the parsed JSON body of that response
\* unchanged after exactly k+1 upstream requests, each sent with the same
\* method, URL and None-stripped query parameters.
C18_Request ==
    IF phase = "arr"
    THEN ArrivalBoardRequest(crs, IF route = "status" THEN StatusNumRows ELSE DefaultNumRows)
    ELSE DepartureBoardRequest(crs, IF route = "status" THEN StatusNumRows ELSE DefaultNumRows)

C18_Case ==
    /\ ClientDone
    /\ \A i \in 1..(Len(outcomes) - 1) : NetworkFailure(outcomes[i])
    /\ LastOutcome \in Http200

C18_RetriesThenSuccess ==
    /\ Len(sent) = Len(outcomes)
    /\ (spc = "fetching" /\ C18_Case =>
           /\ cpc = "returned"
           /\ clientRes = Returned(LastOutcome.payload)
           /\ Len(sent) = retries + 1
           /\ Len(sent) <= MaxRetries + 1
           /\ \A i \in 1..Len(sent) :
                 /\ sent[i].method = C18_Request.method
                 /\ sent[i].url = Url(C18_Request.endpoint)
                 /\ sent[i].params = StripNone(C18_Request.params)
                 /\ \A k \in DOMAIN sent[i].params : sent[i].params[k] # NONE
                 /\ DOMAIN sent[i].params =
                        {k \in DOMAIN C18_Request.params : C18_Request.params[k] # NONE})

C18_Witness ==
    /\ spc = "fetching" /\ phase = "arr" /\ C18_Case
    /\ Len(outcomes) = MaxRetries + 1
    /\ outcomes[1].kind = "timeout" /\ outcomes[2].kind = "connerr"
    /\ LastOutcome.payload.ts = "list"
    /\ clientRes = Returned(LastOutcome.payload)

\* C14: constructing a RailDataClient with an empty consumer_key or an
\* empty base URL raises ConfigurationError before any HTTP session is
\* created (so before any request can be sent), and no client instance
\* exists afterwards.
C14_InvalidSettings ==
    \/ ResolveSettings(settingsArg, envSettings).consumer_key = ""
    \/ ResolveSettings(settingsArg, envSettings).ldbws_base_url = ""

C14_ConfigurationErrorBeforeSession ==
    /\ (C14_InvalidSettings /\ kpc # "start" =>
           /\ kpc = "raised"
           /\ session = NoSession
           /\ constructed = FALSE)
    /\ (kpc = "raised" => C14_InvalidSettings)
    /\ (session # NoSession \/ constructed => ~C14_InvalidSettings)

C14_Witness ==
    /\ kpc = "raised"
    /\ selfSettings.consumer_key = "key"
    /\ selfSettings.ldbws_base_url = ""
    /\ session = NoSession /\ ~constructed

\* C20: the lazily constructed singletons are constructed once: under any
\* interleaving of concurrent get_rail_data_client (resp. get_train_service)
\* calls with no set_ call, at most one instance is ever constructed and
\* every caller receives that same instance.
C20_ConstructedOnce ==
    setCalls = 0 =>
        /\ clientsBuilt <= 1
        /\ servicesBuilt <= 1
        /\ Cardinality(returnedClients) <= 1
        /\ Cardinality(returnedServices) <= 1

C23_ClaimedStatus(o) == IF o.kind = "http" THEN o.status ELSE 0

C23_AttemptsLoggedZeroForNetwork ==
    /\ Len(apiLog) >= Len(outcomes)
    /\ \A i \in 1..Len(outcomes) : apiLog[i] = C23_ClaimedStatus(outcomes[i])

\* C23 (amended): every attempt is recorded through log_api_request, in
\* order: an HTTP response with its status code, a timeout with 504, a
\* connection failure or another request exception with 0; a 200 response
\* whose body cannot be decoded is recorded twice, with 200 and then 0.
C23_Records(o) ==
    IF o.kind = "http"
    THEN IF o.status = 200 /\ ~o.decodable THEN <<200, 0>> ELSE <<o.status>>
    ELSE IF o.kind = "timeout" THEN <<504>> ELSE <<0>>

RECURSIVE C23_Log(_)
C23_Log(os) == IF os = <<>> THEN <<>> ELSE C23_Records(Head(os)) \o C23_Log(Tail(os))

C23_AttemptsLogged == apiLog = C23_Log(outcomes)

C23_Witness ==
    /\ cpc = "raised"
    /\ Len(outcomes) = 3
    /\ outcomes[1].kind = "timeout" /\ outcomes[2].kind = "connerr"
    /\ apiLog = <<504, 0, 500>>

\* C27: an empty board is not an error: when the upstream answers 200 with
\* a payload that has no trainServices key, or whose trainServices value is
\* null, get_arrivals and get_departures return an empty sequence and do
\* not raise.
C27_EmptyBoardNotAnError ==
    (/\ spc = "done" /\ route \in {"arrivals", "departures"}
     /\ clientRes.kind = "return"
     /\ clientRes.payload.ts \in {"absent", "null"}) =>
        /\ TopLevelFetch = ReturnedServices(<<>>)
        /\ httpStatus = 200

\* C28: when a client call exhausts its retries, the error kind it raises
\* is determined by the failure of its last attempt alone: APITimeoutError
\* if the last attempt timed out, ExternalAPIError if it was a connection
\* failure, whatever the kinds of the earlier attempts, which share one
\* retry counter.
C28_Exhausted ==
    /\ Len(outcomes) = MaxRetries + 1
    /\ \A i \in 1..Len(outcomes) : NetworkFailure(outcomes[i])

C28_LastAttemptDecidesKind ==
    /\ (\A i \in 1..Len(outcomes) : NetworkFailure(outcomes[i])) =>
           /\ Len(outcomes) <= MaxRetries + 1
           /\ (cpc = "calling" => retries = Len(outcomes))
    /\ C28_Exhausted =>
           /\ cpc = "raised"
           /\ retries = MaxRetries
           /\ clientRes.error.kind =
                  IF LastOutcome.kind = "timeout" THEN "APITimeoutError" ELSE "ExternalAPIError"

C28_Witness ==
    /\ C28_Exhausted
    /\ outcomes[1].kind = "timeout" /\ outcomes[2].kind = "connerr"
    /\ outcomes[3].kind = "timeout" /\ outcomes[4].kind = "connerr"
    /\ clientRes.error.kind = "ExternalAPIError"

\* C21: in any sequential run of get_train_service / set_train_service
\* calls, get_train_service returns the instance most recently passed to
\* set_train_service when that instance is not None; otherwise it returns
\* the instance built by the first get since the last reset, which is a
\* fresh one; two consecutive gets with no set in between return the
\* identical instance.
C21_IsGet(i) == calls[i].fn = "get_train_service" /\ ~calls[i].raised

C21_IsSet(i) == calls[i].fn = "set_train_service"

SetMax(S) == CHOOSE m \in S : \A x \in S : x <= m

SetMin(S) == CHOOSE m \in S : \A x \in S : m <= x

C21_LastSetBefore(i) == SetMax({0} \cup {j \in 1..(i - 1) : C21_IsSet(j)})

C21_FirstGetAfter(j, i) == SetMin({k \in (j + 1)..i : C21_IsGet(k)})

C21_Fresh(f) ==
    /\ calls[f].value # NoInstance
    /\ calls[f].value[2] >= 1
    /\ \A k \in 1..(f - 1) : calls[k].value # calls[f].value

C21_GetAfterSet ==
    /\ \A i \in 1..Len(calls) :
          C21_IsGet(i) =>
              LET j == C21_LastSetBefore(i) IN
              IF j > 0 /\ calls[j].value # NoInstance
              THEN calls[i].value = calls[j].value
              ELSE LET f == C21_FirstGetAfter(j, i) IN
                   /\ calls[i].value = calls[f].value
                   /\ C21_Fresh(f)
    /\ \A i \in 1..(Len(calls) - 1) :
          C21_IsGet(i) /\ C21_IsGet(i + 1) => calls[i].value = calls[i + 1].value

C21_Witness ==
    /\ Len(calls) = 4
    /\ C21_IsGet(1)
    /\ C21_IsSet(2) /\ calls[2].value = NoInstance
    /\ C21_IsGet(3) /\ calls[3].value # calls[1].value
    /\ C21_IsGet(4) /\ calls[4].value = calls[3].value

\* C29: a failed lazy construction leaves the singleton unset: when
\* get_rail_data_client() or get_train_service() raises ConfigurationError
\* while constructing, the module-level instance is still None afterwards,
\* no partially constructed instance is returned by a later call, and the
\* next call attempts construction again.
C29_Getters == {"get_rail_data_client", "get_train_service"}

C29_LastCall == calls[Len(calls)]

C29_FailedConstructionLeavesUnset ==
    /\ \A i \in 1..Len(calls) :
          calls[i].raised =>
              /\ calls[i].fn \in C29_Getters
              /\ calls[i].attempted
              /\ calls[i].value = NoInstance
              /\ ~configOk
    /\ (Len(calls) > 0 /\ C29_LastCall.raised) =>
           /\ client_instance = NoInstance
           /\ (C29_LastCall.fn = "get_train_service" => train_service = NoInstance)
    /\ \A i \in 1..(Len(calls) - 1) :
          (/\ calls[i].raised
           /\ \/ calls[i + 1].fn = calls[i].fn
              \/ calls[i + 1].fn = "get_rail_data_client") =>
              (calls[i + 1].attempted /\ calls[i + 1].raised)
    /\ ~configOk => clientsBuilt = 0
    /\ \A i \in 1..Len(calls) :
          (calls[i].fn \in C29_Getters /\ ~calls[i].raised) =>
              /\ calls[i].value # NoInstance
              /\ (calls[i].fn = "get_rail_data_client" => calls[i].value[2] <= clientsBuilt)
              /\ (calls[i].fn = "get_rail_data_client" /\ ~configOk =>
                     \E j \in 1..(i - 1) :
                        /\ calls[j].fn = "set_rail_data_client"
                        /\ calls[j].value = calls[i].value)

C29_Witness ==
    /\ Len(calls) = 3
    /\ calls[1].fn = "get_train_service" /\ calls[1].raised
    /\ calls[2].fn = "get_rail_data_client" /\ calls[2].raised /\ calls[2].attempted
    /\ calls[3].fn = "get_train_service" /\ calls[3].raised /\ calls[3].attempted
    /\ client_instance = NoInstance /\ train_service = NoInstance

\* C24: get_settings is cached: every call between two cache clears
\* returns the identical Settings instance, with the values read at the
\* first of those calls, even if the environment changed in between; after
\* get_settings.cache_clear() the next call builds a new, different
\* instance that reflects the current environment.
C24_IsGet(i) == settingsLog[i].op = "get"

C24_LastClearBefore(i) ==
    SetMax({0} \cup {j \in 1..(i - 1) : settingsLog[j].op = "clear"})

C24_FirstGetAfter(j, i) == SetMin({k \in (j + 1)..i : C24_IsGet(k)})

C24_SettingsCached ==
    \A i \in 1..Len(settingsLog) :
        C24_IsGet(i) =>
            LET f == C24_FirstGetAfter(C24_LastClearBefore(i), i) IN
            /\ settingsLog[i].value = settingsLog[f].value
            /\ settingsLog[f].value.app_name = settingsLog[f].env
            /\ settingsLog[f].value.id >= 1
            /\ \A k \in 1..(f - 1) : settingsLog[k].value.id # settingsLog[f].value.id

C24_Witness ==
    /\ Len(settingsLog) = 4
    /\ C24_IsGet(1)
    /\ settingsLog[2].op = "setenv"
    /\ C24_IsGet(3) /\ settingsLog[3].value = settingsLog[1].value
    /\ settingsLog[3].value.app_name # settingsLog[3].env
    /\ settingsLog[4].op = "clear"

\* C25: send_if_enabled sends only if the notifier is enabled: in any
\* sequence of enable(), disable() and send_if_enabled() calls, the provider
\* send is invoked only while the enabled flag is true and the recipient
\* validates; when disabled the call returns the failure result "Notifier
\* is disabled" and when the recipient is invalid a failure result, in both
\* cases without invoking send; disable() followed by enable() restores
\* sending.
C25_Enables == {"enable", "enable_notifier"}

C25_Switches == C25_Enables \cup {"disable", "disable_notifier"}

C25_LastSwitchBefore(i) ==
    SetMax({0} \cup {j \in 1..(i - 1) : notifyLog[j].op \in C25_Switches})

C25_Flag(i) ==
    IF C25_LastSwitchBefore(i) = 0
    THEN notifier.configured
    ELSE notifyLog[C25_LastSwitchBefore(i)].op \in C25_Enables

C25_SendsOnlyWhenEnabled ==
    \A i \in 1..Len(notifyLog) :
        notifyLog[i].op = "send_if_enabled" =>
            LET e == notifyLog[i]
                v == ValidateRecipient(notifier, e.recipient)
            IN
            /\ e.enabled = C25_Flag(i)
            /\ e.sent = (e.enabled /\ v = "true")
            /\ (~e.enabled =>
                   e.result = NotificationResult(FALSE, "Notifier is disabled"))
            /\ (e.enabled /\ v = "false" =>
                   /\ e.result.kind = "result"
                   /\ ~e.result.success
                   /\ e.result.error = "Invalid recipient")
            /\ (e.enabled /\ v = "true" /\ e.provider = "ok" => e.result.success)
            /\ (/\ i > 2
                /\ notifyLog[i - 2].op = "disable"
                /\ notifyLog[i - 1].op = "enable"
                /\ v = "true") => e.sent

C25_Witness ==
    /\ Len(notifyLog) = 3
    /\ notifyLog[1].op = "disable"
    /\ notifyLog[2].op = "enable" /\ ~notifyLog[2].enabled
    /\ notifyLog[3].op = "send_if_enabled"
    /\ notifyLog[3].sent /\ notifyLog[3].result.success

\* C26: NotificationService.send_notification never raises: for every
\* notification type and message it returns a NotificationResult; when no
\* notifier is registered for the type the result has success false and an
\* error containing "No notifier available", and when the notifier's send
\* raises, the result has success false and carries the error text.
C26_SendNotificationNeverRaises ==
    \A i \in 1..Len(notifyLog) :
        notifyLog[i].op = "send_notification" =>
            LET e == notifyLog[i] IN
            /\ e.result.kind = "result"
            /\ (notifier.kind = "absent" =>
                   /\ ~e.sent
                   /\ e.result = NotificationResult(FALSE, "No notifier available"))
            /\ (e.sent /\ e.provider = "raises" =>
                   e.result = NotificationResult(FALSE, "provider error"))
            /\ (e.sent /\ e.provider = "ok" => e.result.success)
            /\ (~e.sent => ~e.result.success)

C26_Witness ==
    /\ Len(notifyLog) = 2
    /\ notifyLog[1].op = "send_notification"
    /\ notifyLog[1].sent /\ notifyLog[1].provider = "raises"
    /\ notifyLog[1].result = NotificationResult(FALSE, "provider error")
    /\ notifyLog[2].op = "send_notification"
    /\ notifyLog[2].result = NotificationResult(FALSE, "Error sending notification")

\* C30: a notifier that disabled itself at construction because its
\* provider configuration is missing never attempts a provider send: after
\* any sequence of NotificationService.enable_notifier, disable_notifier
\* and send_notification calls, send is not invoked on a notifier whose
\* configuration is missing.
C30_ServiceCalls == {"enable_notifier", "disable_notifier", "send_notification"}

C30_UnconfiguredNeverSends ==
    (/\ notifier.kind = "provider" /\ ~notifier.configured
     /\ \A i \in 1..Len(notifyLog) : notifyLog[i].op \in C30_ServiceCalls) =>
        \A i \in 1..Len(notifyLog) : ~notifyLog[i].sent

====
